---- MODULE Spec2Model ----
(***************************************************************************)
(* FFChart (src/lib/node/chart.js): a chart component whose echarts        *)
(* animation driver is stepped by the host timeline (TimelineUpdate) and   *)
(* which fires a user callback on an interval measured in host time.       *)
(*                                                                         *)
(* Numbers (intervals, deltas, the accumulator) are written in TENTHS, so  *)
(* the interval 1.2 is 12, 50 is 500 and 1500 is 15000; time * 1000 is     *)
(* computed on these values exactly as the code computes it.               *)
(***************************************************************************)
EXTENDS Integers, Sequences, FiniteSets

\* ---------------------------------------------------------------- bounds
\* ticks are delivered only while the accumulator stays within MaxAccum
MaxAccum == 1000
\* how many bound handlers start() may create in one behaviour
MaxBinds == 2
\* the number of steps a clip created by the engine needs to finish
MaxLeft == 2
\* how many times one driver is updated (by ticks and by the engine)
MaxAdvances == 2

\* ------------------------------------------------------- values of fields
NULL == "null"
\* this.userCallbackTime = null
NullTime == 0 - 1
\* a function reference: the prototype method, null, or the n-th bound copy
ProtoFn == <<"proto", 0>>
NullFn == <<"null", 0>>
BoundFn(n) == <<"bound", n>>
IsBound(f) == f[1] = "bound"

\* what a registered user function does when it is invoked
CallbackKinds == {"ret", "throw", "destroy"}
\* interval arguments of update(), in tenths: 1.2, 50, 1500
IntervalInputs == {12, 500, 15000}
\* deltas of the host timeline, in tenths
Deltas == {0, 250, 1000}

\* an event of the log: what happened, to which clip or with which number,
\* and (for a call of the user function) whether it got a chart handle
Ev(e, id) == [e |-> e, id |-> id, arg |-> FALSE]
CallEv(t, h) == [e |-> "callback", id |-> t, arg |-> h]

\* clips the engine holds after echarts.init + setOption; left = 0 never finishes
Clip(id, left, hook) == [id |-> id, left |-> left, hook |-> hook]
ClipLists ==
  { <<>>,
    <<Clip(1, MaxLeft, TRUE), Clip(2, 1, FALSE)>>,
    <<Clip(1, 1, TRUE), Clip(2, 0, FALSE)>> }

\* <<_running, _paused, stage.update present>> of a fresh driver
DriverFlags ==
  { <<TRUE, FALSE, TRUE>>, <<TRUE, TRUE, TRUE>>, <<FALSE, FALSE, FALSE>> }

\* this.chart when it holds no handle (undefined before start, null after destroy)
NoChart ==
  [handle |-> FALSE, present |-> FALSE, running |-> FALSE, paused |-> FALSE,
   stage |-> FALSE, patched |-> 0, clips |-> <<>>]

\* the handle echarts.init returns: its driver (chart._zr.animation) or none
Engines ==
  { [handle |-> TRUE, present |-> FALSE, running |-> FALSE, paused |-> FALSE,
     stage |-> FALSE, patched |-> 0, clips |-> <<>>] }
  \cup
  { [handle |-> TRUE, present |-> TRUE, running |-> f[1], paused |-> f[2],
     stage |-> f[3], patched |-> 0, clips |-> cs] :
       f \in DriverFlags, cs \in ClipLists }

VARIABLES
  userCallback,      \* this.userCallback: NULL or the kind of the function
  userCallbackTime,  \* this.userCallbackTime
  time,              \* this.time, the accumulator
  runUpdateNow,      \* this.runUpdateNow
  chart,             \* this.chart: NoChart or the engine handle
  updateCallbackFn,  \* this.updateCallback: a function reference
  frameCallbacks,    \* TimelineUpdate's subscribed handlers (bound ids)
  nbound,            \* number of bound handlers created so far
  log,               \* events of the last operation, in order
  threw,             \* the last operation ended by an exception
  lastOp,            \* name of the last operation
  sumSince,          \* sum of the deltas handled since the last fire
  hist               \* what the driver of this.chart has been through

vars == <<userCallback, userCallbackTime, time, runUpdateNow, chart,
          updateCallbackFn, frameCallbacks, nbound, log, threw, lastOp, sumSince,
          hist>>

\* the object and its collaborators as one value, the operations below map it
Cur ==
  [userCallback |-> userCallback, userCallbackTime |-> userCallbackTime,
   time |-> time, runUpdateNow |-> runUpdateNow, chart |-> chart,
   updateCallback |-> updateCallbackFn, frameCallbacks |-> frameCallbacks,
   nbound |-> nbound, log |-> <<>>, threw |-> FALSE, delta |-> 0]

Emit(s, e, id) == [s EXCEPT !.log = Append(@, Ev(e, id))]
Throw(s) == [s EXCEPT !.threw = TRUE, !.log = Append(@, Ev("throw", 0))]

\* ------------------------------------------------------------ update()
\* the `50` of `time < 50`, in tenths
Threshold == 500

\* variant: the threshold compared with <= instead of <
NormalizeInterval_Inclusive(t) == IF t <= Threshold THEN t * 1000 ELSE t

NormalizeInterval(t) == IF t < Threshold THEN t * 1000 ELSE t

update(s, func, t) ==
  [Emit(s, "update", t) EXCEPT
     !.userCallback = func, !.userCallbackTime = NormalizeInterval(t)]

\* --------------------------------------------------------- updateNow()
updateNow(s) == [s EXCEPT !.runUpdateNow = TRUE]

\* --------------------------------------------- animation.update override
\* clip.step(time, delta): one step nearer to the end; finished at the end
StepClip(c) == IF c.left = 0 THEN c ELSE [c EXCEPT !.left = @ - 1]
Finished(c) == c.left = 1

\* the driver links its clips: _clipsHead, and clip.next of every clip
NoClip == 0
ClipIds(cs) == {cs[k].id : k \in 1..Len(cs)}
Linked(cs) ==
  [head |-> IF cs = <<>> THEN NoClip ELSE cs[1].id,
   next |-> [i \in ClipIds(cs) |->
               LET k == CHOOSE k \in 1..Len(cs) : cs[k].id = i
               IN IF k = Len(cs) THEN NoClip ELSE cs[k + 1].id],
   clip |-> [i \in ClipIds(cs) |->
               cs[CHOOSE k \in 1..Len(cs) : cs[k].id = i]]]

\* the clips still linked, from the clip c on
RECURSIVE Order(_, _)
Order(l, c) ==
  IF c = NoClip THEN <<>> ELSE <<l.clip[c]>> \o Order(l, l.next[c])

\* this.removeClip(clip): the neighbours are joined, clip.next is cleared
removeClip(l, id) ==
  LET nx == l.next[id]
  IN [l EXCEPT
        !.head = IF @ = id THEN nx ELSE @,
        !.next = [i \in DOMAIN @ |->
                    IF i = id THEN NoClip
                    ELSE IF @[i] = id THEN nx ELSE @[i]]]

\* what a finished clip adds to the log: its hook if it has one, its removal
FinishEvents(c) ==
  (IF c.hook THEN <<Ev("ondestroy", c.id)>> ELSE <<>>)
    \o <<Ev("removeClip", c.id)>>

\* variant: the loop that reads clip.next after the clip was removed
RECURSIVE WalkClips_NextAfterRemove(_, _, _)
WalkClips_NextAfterRemove(l, clip, evs) ==
  IF clip = NoClip THEN [list |-> l, evs |-> evs]
  ELSE LET c == l.clip[clip]
           e1 == Append(evs, Ev("step", clip))
       IN IF Finished(c)
          THEN LET l2 == removeClip(l, clip)
               IN WalkClips_NextAfterRemove(l2, l2.next[clip],
                                            e1 \o FinishEvents(c))
          ELSE WalkClips_NextAfterRemove([l EXCEPT !.clip[clip] = StepClip(c)],
                                         l.next[clip], e1)

\* variant: the loop that leaves a finished clip linked
RECURSIVE WalkClips_KeepsFinished(_, _, _)
WalkClips_KeepsFinished(l, clip, evs) ==
  IF clip = NoClip THEN [list |-> l, evs |-> evs]
  ELSE LET nextClip == l.next[clip]
           c == l.clip[clip]
           e1 == Append(evs, Ev("step", clip))
       IN IF Finished(c)
          THEN WalkClips_KeepsFinished([l EXCEPT !.clip[clip].left = 1],
                                       nextClip, e1 \o FinishEvents(c))
          ELSE WalkClips_KeepsFinished([l EXCEPT !.clip[clip] = StepClip(c)],
                                       nextClip, e1)

\* the while loop of animation.update, at the clip `clip`
RECURSIVE WalkClips(_, _, _)
WalkClips(l, clip, evs) ==
  IF clip = NoClip THEN [list |-> l, evs |-> evs]
  ELSE LET nextClip == l.next[clip]
           c == l.clip[clip]
           e1 == Append(evs, Ev("step", clip))
       IN IF Finished(c)
          THEN WalkClips(removeClip(l, clip), nextClip, e1 \o FinishEvents(c))
          ELSE WalkClips([l EXCEPT !.clip[clip] = StepClip(c)], nextClip, e1)

\* variant: the stage is refreshed before the frame is announced
FrameEvents_StageFirst(a, delta) ==
  (IF a.stage THEN <<Ev("stage", 0)>> ELSE <<>>)
    \o <<Ev("onframe", delta), Ev("frame", delta)>>

FrameEvents(a, delta) ==
  <<Ev("onframe", delta), Ev("frame", delta)>>
    \o (IF a.stage THEN <<Ev("stage", 0)>> ELSE <<>>)

\* variant: an idle driver (no clip left) is switched off by the update
AnimationUpdate_StopsWhenIdle(s, notTrigger) ==
  LET l == Linked(s.chart.clips)
      w == WalkClips(l, l.head, <<Ev("animation.update", 0)>>)
      cs == Order(w.list, w.list.head)
  IN [s EXCEPT !.chart.clips = cs,
               !.chart.running = (cs # <<>>),
               !.log = @ \o w.evs
                         \o (IF notTrigger THEN <<>>
                             ELSE FrameEvents(s.chart, s.delta))]

AnimationUpdate(s, notTrigger) ==
  LET l == Linked(s.chart.clips)
      w == WalkClips(l, l.head, <<Ev("animation.update", 0)>>)
  IN [s EXCEPT !.chart.clips = Order(w.list, w.list.head),
               !.log = @ \o w.evs
                         \o (IF notTrigger THEN <<>>
                             ELSE FrameEvents(s.chart, s.delta))]

\* ------------------------------------------------------ echartsUpdate()
\* variant: the driver is updated whatever its _running and _paused say
echartsUpdate_Ungated(s) ==
  IF s.chart = NoChart THEN Throw(s) ELSE AnimationUpdate(s, FALSE)

echartsUpdate(s) ==
  IF s.chart = NoChart THEN Throw(s)
  ELSE IF s.chart.running /\ ~s.chart.paused
       THEN AnimationUpdate(s, FALSE)
       ELSE s

\* ------------------------------------------------------------ destroy()
\* variant: destroy() that forgets to unsubscribe the handler
destroy_KeepsSubscription(s) ==
  LET s2 == Emit(s, "super.destroy", 0)
  IN IF s2.chart = NoChart THEN Throw(s2)
     ELSE [Emit(Emit(s2, "dispose", 0), "nulled", 0) EXCEPT
             !.userCallback = NULL, !.updateCallback = NullFn,
             !.userCallbackTime = NullTime, !.chart = NoChart]

\* the reference destroy() hands to removeFrameCallback is logged by its
\* number: n for the n-th bound copy, 0 for the prototype method and null
destroy(s) ==
  LET s1 == Emit([s EXCEPT !.frameCallbacks = @ \ {s.updateCallback}],
                 "removeFrameCallback", s.updateCallback[2])
      s2 == Emit(s1, "super.destroy", 0)
  IN IF s2.chart = NoChart THEN Throw(s2)
     ELSE [Emit(Emit(s2, "dispose", 0), "nulled", 0) EXCEPT
             !.userCallback = NULL, !.updateCallback = NullFn,
             !.userCallbackTime = NullTime, !.chart = NoChart]

\* ------------------------------------------- this.userCallback(chart)
CallUser(s) ==
  IF s.userCallback = NULL THEN Throw(s)
  ELSE LET s1 == [s EXCEPT !.log = Append(@, CallEv(s.time, s.chart.handle))]
       IN CASE s.userCallback = "ret" -> s1
            [] s.userCallback = "throw" -> Throw(s1)
            [] s.userCallback = "destroy" -> destroy(s1)

\* ----------------------------------------------------- updateCallback()
\* variant: the handler without its `if (!this.userCallback) return`
updateCallback_NoGuard(s, delta) ==
  LET s0 == Emit(s, "updateCallback", delta)
      s1 == echartsUpdate(s0)
      s2 == [s1 EXCEPT !.time = @ + delta]
  IN IF s1.threw THEN s1
     ELSE IF s2.time >= s0.userCallbackTime
          THEN LET s3 == CallUser(s2)
               IN IF s3.threw THEN s3 ELSE [s3 EXCEPT !.time = 0]
          ELSE s2

\* variant: the handler that checks the interval and calls the user
\* callback first and advances the engine afterwards
updateCallback_CallbackFirst(s, delta) ==
  LET s0 == Emit(s, "updateCallback", delta)
  IN IF s0.userCallback = NULL THEN s0
     ELSE LET s2 == [s0 EXCEPT !.time = @ + delta]
              s3 == IF s2.time >= s0.userCallbackTime
                    THEN LET c == CallUser(s2)
                         IN IF c.threw THEN c ELSE [c EXCEPT !.time = 0]
                    ELSE s2
          IN IF s3.threw THEN s3 ELSE echartsUpdate(s3)

\* variant: the handler that catches what the user callback throws
updateCallback_Swallows(s, delta) ==
  LET s0 == Emit(s, "updateCallback", delta)
  IN IF s0.userCallback = NULL THEN s0
     ELSE LET s1 == echartsUpdate(s0)
              s2 == [s1 EXCEPT !.time = @ + delta]
          IN IF s1.threw THEN s1
             ELSE IF s2.time >= s0.userCallbackTime
                  THEN [CallUser(s2) EXCEPT !.time = 0, !.threw = FALSE]
                  ELSE s2

\* variant: the handler that resets the accumulator before the call
updateCallback_ResetsFirst(s, delta) ==
  LET s0 == Emit(s, "updateCallback", delta)
  IN IF s0.userCallback = NULL THEN s0
     ELSE LET s1 == echartsUpdate(s0)
              s2 == [s1 EXCEPT !.time = @ + delta]
          IN IF s1.threw THEN s1
             ELSE IF s2.time >= s0.userCallbackTime
                  THEN [CallUser(s2) EXCEPT !.time = 0]
                  ELSE s2

\* variant: the handler that fires once per interval the accumulator holds
updateCallback_CatchesUp(s, delta) ==
  LET s0 == Emit(s, "updateCallback", delta)
  IN IF s0.userCallback = NULL THEN s0
     ELSE LET s1 == echartsUpdate(s0)
              s2 == [s1 EXCEPT !.time = @ + delta]
          IN IF s1.threw THEN s1
             ELSE IF s2.time >= s0.userCallbackTime
                  THEN LET s3 == CallUser(s2)
                           s4 == IF s3.threw \/ s3.userCallback = NULL
                                      \/ s2.time < 2 * s0.userCallbackTime
                                 THEN s3 ELSE CallUser(s3)
                       IN IF s4.threw THEN s4 ELSE [s4 EXCEPT !.time = 0]
                  ELSE s2

updateCallback(s, delta) ==
  LET s0 == Emit(s, "updateCallback", delta)
  IN IF s0.userCallback = NULL THEN s0
     ELSE LET s1 == echartsUpdate(s0)
              s2 == [s1 EXCEPT !.time = @ + delta]
          IN IF s1.threw THEN s1
             ELSE IF s2.time >= s0.userCallbackTime
                  THEN LET s3 == CallUser(s2)
                       IN IF s3.threw THEN s3 ELSE [s3 EXCEPT !.time = 0]
                  ELSE s2

\* -------------------------------------------- fixZrender / initECahrts
\* `patched` counts the override layers the driver carries
\* variant: every install wraps the update that is already installed
fixZrender_Wraps(eng) == [eng EXCEPT !.patched = @ + 1]

fixZrender(eng) == [eng EXCEPT !.patched = 1]

\* variant: an absent driver is skipped silently instead of failing
initECahrts_Silent(s, eng) ==
  LET s0 == Emit(s, "init", IF eng.present THEN 1 ELSE 0)
  IN [s0 EXCEPT !.chart = fixZrender(eng)]

initECahrts(s, eng) ==
  LET s0 == Emit(s, "init", IF eng.present THEN 1 ELSE 0)
  IN IF ~eng.present THEN Throw(s0)
     ELSE [s0 EXCEPT !.chart = fixZrender(eng)]

\* -------------------------------------------------------------- start()
\* variant: start() that calls the user callback whatever the flag says
start_AlwaysInvokes(s, eng) ==
  LET s1 == initECahrts(s, eng)
  IN IF s1.threw THEN s1
     ELSE IF s1.updateCallback = NullFn THEN Throw(s1)
     ELSE LET b == BoundFn(s1.nbound + 1)
              s2 == Emit([s1 EXCEPT !.updateCallback = b, !.nbound = @ + 1,
                                    !.frameCallbacks = @ \cup {b}],
                         "addFrameCallback", b[2])
          IN CallUser(s2)

\* variant: start() that binds the prototype method, whatever the field holds
start_BindsPrototype(s, eng) ==
  LET s1 == initECahrts(s, eng)
  IN IF s1.threw THEN s1
     ELSE LET b == BoundFn(s1.nbound + 1)
              s2 == Emit([s1 EXCEPT !.updateCallback = b, !.nbound = @ + 1,
                                    !.frameCallbacks = @ \cup {b}],
                         "addFrameCallback", b[2])
          IN IF s2.runUpdateNow THEN CallUser(s2) ELSE s2

\* variant: start() subscribes a bound copy it does not keep
start_BindsInline(s, eng) ==
  LET s1 == initECahrts(s, eng)
  IN IF s1.threw THEN s1
     ELSE IF s1.updateCallback = NullFn THEN Throw(s1)
     ELSE LET b == BoundFn(s1.nbound + 1)
              s2 == Emit([s1 EXCEPT !.nbound = @ + 1,
                                    !.frameCallbacks = @ \cup {b}],
                         "addFrameCallback", b[2])
          IN IF s2.runUpdateNow THEN CallUser(s2) ELSE s2

start(s, eng) ==
  LET s1 == initECahrts(s, eng)
  IN IF s1.threw THEN s1
     ELSE IF s1.updateCallback = NullFn THEN Throw(s1)
     ELSE LET b == BoundFn(s1.nbound + 1)
              s2 == Emit([s1 EXCEPT !.updateCallback = b, !.nbound = @ + 1,
                                    !.frameCallbacks = @ \cup {b}],
                         "addFrameCallback", b[2])
          IN IF s2.runUpdateNow THEN CallUser(s2) ELSE s2

\* ------------------------------------------------- the overridden hook
startLoop(eng) == [eng EXCEPT !.running = TRUE]

\* =============================================================== actions
\* the history of a driver: how often it was updated, how often each clip
\* was stepped and had its destroy hook called, which clips were removed,
\* whether _startLoop has run
AllClipIds == UNION {ClipIds(cs) : cs \in ClipLists}
CountId(l, e, id) ==
  Cardinality({i \in 1..Len(l) : l[i].e = e /\ l[i].id = id})
NoHist ==
  [advances |-> 0, steps |-> [i \in AllClipIds |-> 0],
   destroys |-> [i \in AllClipIds |-> 0], removed |-> {},
   hooked |-> FALSE]
HistAfter(s, op) ==
  IF s.chart = NoChart THEN NoHist
  ELSE IF op = "start" /\ s.log[1] = Ev("init", 1) THEN NoHist
  ELSE [advances |-> hist.advances + CountId(s.log, "animation.update", 0),
        steps |-> [i \in AllClipIds |->
                     hist.steps[i] + CountId(s.log, "step", i)],
        destroys |-> [i \in AllClipIds |->
                        hist.destroys[i] + CountId(s.log, "ondestroy", i)],
        removed |-> hist.removed
                      \cup {i \in AllClipIds : CountId(s.log, "removeClip", i) > 0},
        hooked |-> hist.hooked \/ op = "startLoop"]

Set(s, op) ==
  /\ hist' = HistAfter(s, op)
  /\ hist'.advances <= MaxAdvances
  /\ userCallback' = s.userCallback
  /\ userCallbackTime' = s.userCallbackTime
  /\ time' = s.time
  /\ runUpdateNow' = s.runUpdateNow
  /\ chart' = s.chart
  /\ updateCallbackFn' = s.updateCallback
  /\ frameCallbacks' = s.frameCallbacks
  /\ nbound' = s.nbound
  /\ log' = s.log
  /\ threw' = s.threw
  /\ lastOp' = op

Has(l, e) == \E i \in 1..Len(l) : l[i].e = e
Fired(s) == Has(s.log, "callback")

Init ==
  /\ userCallback = NULL
  /\ userCallbackTime = NullTime
  /\ time = 0
  /\ runUpdateNow \in BOOLEAN
  /\ chart = NoChart
  /\ updateCallbackFn = ProtoFn
  /\ frameCallbacks = {}
  /\ nbound = 0
  /\ log = <<>>
  /\ threw = FALSE
  /\ lastOp = "new"
  /\ sumSince = 0
  /\ hist = NoHist

Update ==
  \E f \in CallbackKinds, t \in IntervalInputs :
    /\ Set(update(Cur, f, t), "update")
    /\ UNCHANGED sumSince

UpdateNow ==
  /\ Set(updateNow(Cur), "updateNow")
  /\ UNCHANGED sumSince

Start ==
  \E eng \in Engines :
    /\ nbound < MaxBinds
    /\ Set(start(Cur, eng), "start")
    /\ UNCHANGED sumSince

Destroy ==
  /\ Set(destroy(Cur), "destroy")
  /\ UNCHANGED sumSince

\* a (time, delta) pair handed to the handler h
Deliver(h, d, op) ==
  /\ time + d <= MaxAccum
  /\ LET r == updateCallback([Cur EXCEPT !.delta = d], d)
     IN /\ Set(r, op)
        /\ sumSince' = IF Fired(r) THEN 0
                       ELSE IF userCallback # NULL THEN sumSince + d
                       ELSE sumSince

\* the host timeline calls a subscribed handler
Tick == \E h \in frameCallbacks, d \in Deltas : Deliver(h, d, "tick")

\* the host timeline calls a handler it was told to remove
StaleTick ==
  \E n \in 1..nbound, d \in Deltas :
    /\ BoundFn(n) \notin frameCallbacks
    /\ Deliver(BoundFn(n), d, "staleTick")

\* the engine calls animation._startLoop
StartLoop ==
  /\ chart # NoChart
  /\ ~chart.running
  /\ Set([Cur EXCEPT !.chart = startLoop(chart)], "startLoop")
  /\ UNCHANGED sumSince

\* the engine updates its driver itself, without frame notification
\* (animation.update(true))
Flush ==
  /\ chart # NoChart
  /\ Set(AnimationUpdate(Cur, TRUE), "flush")
  /\ UNCHANGED sumSince

\* fixZrender is called once more on the handle this.chart holds
FixZrender ==
  /\ chart # NoChart
  /\ Set([Emit(Cur, "fixZrender", 0) EXCEPT !.chart = fixZrender(chart)],
         "fixZrender")
  /\ UNCHANGED sumSince

\* update() is called on a bridge that was not destroyed (spec 4.2)
Next ==
  \/ (updateCallbackFn # NullFn /\ Update)
  \/ UpdateNow
  \/ Start
  \/ Destroy
  \/ Tick
  \/ StaleTick
  \/ StartLoop
  \/ Flush
  \/ FixZrender

Spec == Init /\ [][Next]_vars

\* ================================================================ claims
\* helpers of the claims: positions of events in the log of an operation
IsTick(op) == op \in {"tick", "staleTick"}
Count(l, e) == Cardinality({i \in 1..Len(l) : l[i].e = e})
Pos(l, e) == CHOOSE i \in 1..Len(l) : l[i].e = e
EngineEvents == {"step", "ondestroy", "removeClip", "onframe", "frame", "stage"}
Advanced(l) == \E i \in 1..Len(l) : l[i].e \in EngineEvents
Disposed == updateCallbackFn = NullFn

\* C1: at a tick-driven fire the accumulator equals the sum of the deltas
\* handled since the previous tick-driven fire and is >= the interval;
\* right after the fire it is 0; on a tick without a fire it does not decrease.
C1_AccumulatorResetAtEveryFire ==
  [][ lastOp' = "tick" =>
        IF Has(log', "callback")
        THEN /\ log'[Pos(log', "callback")].id = sumSince + log'[1].id
             /\ log'[Pos(log', "callback")].id >= userCallbackTime
             /\ time' = 0
        ELSE time' >= time ]_vars

\* C2: with the invoke-immediately flag set and a callback registered, a
\* start() whose engine has a driver calls the callback exactly once, with
\* the chart handle, after addFrameCallback; without the flag, not at all.
C2_UpdateNowFiresOnceInStart ==
  [][ lastOp' = "start" =>
        /\ (runUpdateNow /\ userCallback # NULL /\ log'[1] = Ev("init", 1))
             => /\ Count(log', "callback") = 1
                /\ Has(log', "addFrameCallback")
                /\ Pos(log', "addFrameCallback") < Pos(log', "callback")
                /\ log'[Pos(log', "callback")].arg
        /\ ~runUpdateNow => ~Has(log', "callback") ]_vars

C2_Witness ==
  /\ lastOp = "start"
  /\ runUpdateNow
  /\ Count(log, "callback") = 1
  /\ Has(log, "addFrameCallback")

\* C3: a tick handed to the handler after destroy() has returned does not
\* throw, steps no clip, notifies no frame or stage and calls no callback.
C3_StaleTickAfterDestroyIsInert ==
  [][ (Disposed /\ IsTick(lastOp')) =>
        /\ ~threw'
        /\ Len(log') = 1
        /\ chart' = chart /\ time' = time ]_vars

C3_Witness ==
  /\ lastOp = "staleTick"
  /\ Disposed
  /\ log = <<Ev("updateCallback", 250)>>

\* C4: destroy() called by the user callback of the running tick lets that
\* tick finish without an exception, and no later tick calls the callback
\* or advances the engine.
C4_DestroyInsideCallback ==
  [][ IsTick(lastOp') =>
        /\ (userCallback = "destroy" /\ Has(log', "callback"))
             => (~threw' /\ Disposed' /\ updateCallbackFn \notin frameCallbacks')
        /\ Disposed => (~Has(log', "callback") /\ ~Advanced(log')) ]_vars

C4_Witness ==
  /\ lastOp = "tick"
  /\ Has(log, "callback")
  /\ Has(log, "dispose")
  /\ Disposed
  /\ ~threw

\* C5: destroy() on a bridge that was never started, or that is already
\* destroyed, does not throw and changes nothing.
C5_DestroyWhenNotActiveIsNoOp ==
  [][ (lastOp' = "destroy" /\ chart = NoChart /\ ~IsBound(updateCallbackFn)) =>
        /\ ~threw'
        /\ UNCHANGED <<userCallback, userCallbackTime, time, runUpdateNow,
                       chart, updateCallbackFn, frameCallbacks>> ]_vars

\* C6: a tick handled while no user callback is registered still advances
\* the engine when the driver is running and not paused.
C6_AdvanceWithoutCallback ==
  [][ (lastOp' = "tick" /\ userCallback = NULL /\ chart.handle
         /\ chart.running /\ ~chart.paused) =>
        /\ Has(log', "onframe")
        /\ Count(log', "step") = Len(chart.clips) ]_vars

\* C7: within one tick every event of the engine advance precedes the call
\* of the user callback, and the advance of a running, unpaused driver has
\* been made when the callback is called.
C7_AdvanceBeforeCallback ==
  [][ (IsTick(lastOp') /\ Has(log', "callback")) =>
        /\ \A i \in 1..Len(log') :
             log'[i].e \in EngineEvents => i < Pos(log', "callback")
        /\ (chart.running /\ ~chart.paused) =>
             /\ Count(log', "step") = Len(chart.clips)
             /\ Has(log', "frame") ]_vars

C7_Witness ==
  /\ lastOp = "tick"
  /\ Has(log, "step")
  /\ Has(log, "frame")
  /\ Has(log, "callback")

\* C8: update(fn, t) stores t * 1000 for t < 50 and t itself for t >= 50:
\* 1.2 gives 1200, 1500 gives 1500 and 50 gives 50 (numbers in tenths).
C8_IntervalNormalization ==
  lastOp = "update" =>
    LET t == log[1].id
    IN /\ t < 500 => userCallbackTime = t * 1000
       /\ t >= 500 => userCallbackTime = t
       /\ t = 12 => userCallbackTime = 12000
       /\ t = 15000 => userCallbackTime = 15000
       /\ t = 500 => userCallbackTime = 500

C8_Witness ==
  /\ lastOp = "update"
  /\ log[1].id = 500
  /\ userCallbackTime = 500

\* C9: once destroy() has returned the bridge stays destroyed: a later
\* start() fails before it subscribes a handler, no handler is added to the
\* host timeline, and no tick advances the engine or calls the callback.
C9_NoRestartAfterDestroy ==
  [][ Disposed =>
        /\ Disposed'
        /\ frameCallbacks' \subseteq frameCallbacks
        /\ lastOp' = "start" => (threw' /\ ~Has(log', "addFrameCallback"))
        /\ IsTick(lastOp') => (~Advanced(log') /\ ~Has(log', "callback")) ]_vars

C9_Witness ==
  /\ lastOp = "start"
  /\ Disposed
  /\ threw
  /\ chart.handle

\* C10: a start() whose engine handle has no animation driver fails and
\* leaves nothing active: no handler subscribed, no callback called.
C10_StartFailsWithoutDriver ==
  [][ (lastOp' = "start" /\ log'[1] = Ev("init", 0)) =>
        /\ threw'
        /\ ~Has(log', "addFrameCallback")
        /\ ~Has(log', "callback")
        /\ UNCHANGED <<frameCallbacks, updateCallbackFn, chart, nbound>> ]_vars

C10_Witness ==
  /\ lastOp = "start"
  /\ log = <<Ev("init", 0), Ev("throw", 0)>>
  /\ runUpdateNow
  /\ userCallback # NULL

\* ------------------------------------------------- claims C11 .. C20
\* helpers: the clips an operation stepped, in order; a driver update
StepIds(l) ==
  LET st == SelectSeq(l, LAMBDA e : e.e = "step")
  IN [k \in 1..Len(st) |-> st[k].id]
IdsOf(cs) == [k \in 1..Len(cs) |-> cs[k].id]
Updated(l) == Has(l, "animation.update")
ClipOf(cs, i) == cs[CHOOSE k \in 1..Len(cs) : cs[k].id = i]
NewEngine(op, l) == op = "start" /\ l[1] = Ev("init", 1)

\* C11: what the user callback throws during a tick leaves updateCallback
\* as an exception: the handler does not catch it.
C11_CallbackErrorPropagates ==
  [][ (IsTick(lastOp') /\ userCallback = "throw" /\ Has(log', "callback")) =>
        /\ threw'
        /\ log'[Len(log')] = Ev("throw", 0) ]_vars

C11_Witness ==
  /\ lastOp = "tick"
  /\ userCallback = "throw"
  /\ Has(log, "callback")
  /\ threw

C13_RunningNeverCleared ==
  [][ (hist.hooked /\ chart.running) =>
        \/ chart'.running
        \/ chart' = NoChart
        \/ NewEngine(lastOp', log') ]_vars

C13_Witness ==
  /\ hist.hooked
  /\ lastOp = "tick"
  /\ Updated(log)
  /\ chart.running

\* C14: one update of the driver is one pass over the clips: every clip
\* linked when it starts is stepped exactly once, in order, also when clips
\* finish and are removed on the way.
C14_OnePassEveryClipOnce ==
  [][ Updated(log') =>
        /\ Count(log', "animation.update") = 1
        /\ StepIds(log') = IdsOf(chart.clips) ]_vars

C14_Witness ==
  /\ Updated(log)
  /\ \E i, j \in 1..Len(log) :
       i < j /\ log[i].e = "removeClip" /\ log[j].e = "step"

\* C15: a clip whose step returns finished has its destroy hook (if any)
\* called and is removed in that update, is not stepped by a later update
\* and has its hook called at most once; a clip that did not finish stays
\* linked and was stepped at most as often as the driver was updated.
C15_FinishedClipsLeaveForGood ==
  [][ Updated(log') =>
        \A i \in AllClipIds :
          /\ (i \in ClipIds(chart.clips) /\ Finished(ClipOf(chart.clips, i))) =>
               /\ CountId(log', "removeClip", i) = 1
               /\ CountId(log', "ondestroy", i)
                    = IF ClipOf(chart.clips, i).hook THEN 1 ELSE 0
               /\ chart'.handle => i \notin ClipIds(chart'.clips)
          /\ i \in hist.removed =>
               (CountId(log', "step", i) = 0 /\ CountId(log', "ondestroy", i) = 0)
          /\ hist'.destroys[i] <= 1
          /\ (i \in ClipIds(chart.clips) /\ ~Finished(ClipOf(chart.clips, i))
                /\ chart'.handle) =>
               /\ i \in ClipIds(chart'.clips)
               /\ CountId(log', "removeClip", i) = 0
               /\ hist'.steps[i] <= hist'.advances ]_vars

C15_Witness ==
  /\ lastOp = "tick"
  /\ hist.advances = 2
  /\ hist.removed # {}
  /\ \E i \in AllClipIds : hist.destroys[i] = 1
  /\ Has(log, "step")

\* C16: an update that is not told to keep quiet calls, after the whole
\* pass, onframe(delta), then trigger('frame', delta), then stage.update if
\* the stage has one, each once; an update told to keep quiet does none.
C16_FrameNotificationAfterThePass ==
  [][ Updated(log') =>
        IF lastOp' = "flush"
        THEN ~Has(log', "onframe") /\ ~Has(log', "frame") /\ ~Has(log', "stage")
        ELSE LET p == Pos(log', "onframe")
                 d == log'[1].id
             IN /\ Count(log', "onframe") = 1
                /\ Count(log', "frame") = 1
                /\ Count(log', "stage") = IF chart.stage THEN 1 ELSE 0
                /\ log'[p] = Ev("onframe", d)
                /\ p + 1 <= Len(log') /\ log'[p + 1] = Ev("frame", d)
                /\ chart.stage =>
                     (p + 2 <= Len(log') /\ log'[p + 2] = Ev("stage", 0))
                /\ \A i \in 1..Len(log') :
                     log'[i].e \in {"step", "ondestroy", "removeClip"} => i < p ]_vars

C16_Witness ==
  /\ lastOp = "tick"
  /\ log[1].id = 250
  /\ Has(log, "removeClip")
  /\ Has(log, "stage")

\* C17: a tick handled while the driver is not running or is paused steps
\* no clip, removes no clip and notifies no frame or stage.
C17_NoAdvanceWhenStoppedOrPaused ==
  [][ (IsTick(lastOp') /\ chart.handle /\ (~chart.running \/ chart.paused)) =>
        /\ ~Updated(log')
        /\ ~Advanced(log')
        /\ chart'.handle => chart'.clips = chart.clips ]_vars

C17_Witness ==
  /\ lastOp = "tick"
  /\ chart.paused
  /\ chart.clips # <<>>
  /\ Has(log, "callback")

\* C18: a tick calls the user callback at most once, however many
\* intervals its delta covers, and with a callback registered the
\* accumulator is fed and the callback fired also on ticks where the driver
\* is paused or not running.
C18_AtMostOneFirePerTick ==
  [][ IsTick(lastOp') =>
        /\ Count(log', "callback") <= 1
        /\ (userCallback # NULL /\ chart.handle
              /\ (~chart.running \/ chart.paused)) =>
             IF time + log'[1].id >= userCallbackTime
             THEN Count(log', "callback") = 1
             ELSE Count(log', "callback") = 0 /\ time' = time + log'[1].id ]_vars

C18_Witness ==
  /\ lastOp = "tick"
  /\ log[1].id = 1000
  /\ userCallbackTime = 500
  /\ Count(log, "callback") = 1
  /\ chart.handle /\ chart.paused

\* C19: when the user callback throws in a tick-driven fire the accumulator
\* keeps its value (>= the interval), and the tick delivered right after it
\* calls the callback again.
C19_ThrowKeepsAccumulator ==
  [][ lastOp' = "tick" =>
        /\ (userCallback = "throw" /\ Has(log', "callback")) =>
             /\ time' = time + log'[1].id
             /\ time' >= userCallbackTime
        /\ (lastOp = "tick" /\ threw /\ Has(log, "callback")) =>
             Has(log', "callback") ]_vars

C19_Witness ==
  /\ lastOp = "tick"
  /\ threw
  /\ Has(log, "callback")
  /\ time > userCallbackTime
  /\ log[1].id = 250

\* C20: on a bridge started once, destroy() hands removeFrameCallback the
\* bound function start() subscribed, before the chart is disposed and the
\* fields are nulled, and the host timeline holds no handler afterwards.
C20_DestroyRemovesTheBoundHandler ==
  [][ (lastOp' = "destroy" /\ nbound = 1 /\ chart.handle /\ ~Disposed) =>
        /\ frameCallbacks = {BoundFn(1)}
        /\ log'[1] = Ev("removeFrameCallback", 1)
        /\ Has(log', "dispose") /\ Has(log', "nulled")
        /\ Pos(log', "removeFrameCallback") < Pos(log', "dispose")
        /\ Pos(log', "dispose") < Pos(log', "nulled")
        /\ frameCallbacks' = {} ]_vars

C20_Witness ==
  /\ lastOp = "destroy"
  /\ ~threw
  /\ nbound = 1
  /\ log[1] = Ev("removeFrameCallback", 1)
  /\ frameCallbacks = {}

====
